---- MODULE Spec2Model ----
(***************************************************************************)
(* live-noter: webhook ingestion, batching and incremental synthesis.      *)
(*                                                                         *)
(* Model of src/utils/server.js (timer-driven processWebhooks, ingestion), *)
(* src/utils/webhook-manager.js (fragment store, consumption record,       *)
(* batcher) and src/utils/processor.js (synthesis state, prompt, LLM call, *)
(* output append).                                                         *)
(*                                                                         *)
(* Texts are sequences of one-character strings.  Every `await` of the     *)
(* code that touches a persisted file is a separate step of a tick, so     *)
(* that the interleavings of the Node event loop are the interleavings of  *)
(* the model.                                                              *)
(***************************************************************************)
EXTENDS Integers, Sequences, FiniteSets, TLC

\* ------------------------------------------------------------------ bounds
\* number of processWebhooks invocations that may be in flight at once
MaxActive == 2
\* number of timer firings explored
MaxTicks == 3
\* number of fragments ingested
MaxFrags == 2
\* length of the texts and of the segment lists given to extraction
MaxText == 2
MaxSegs == 2
\* size of the fragment stores the Batcher is called on
MaxStore == 12

\* -------------------------------------------------------- program constants
\* CONFIG.batchSize
batchSize == 10
\* CONFIG.mergeSeparator
mergeSeparator == <<" ">>
\* CONFIG.outputFile (default destination)
outputFile == "final_notes.md"

Null == "null"
NoFile == <<"ENOENT">>
\* the active note and the fallback note a client may name in /start-recording
NoteFile == "note.md"
FallbackFile == "fallback.md"
Paths == {outputFile, NoteFile, FallbackFile}
Slots == 1..MaxActive
\* POST /webhook requests that may be in flight at once
IngSlots == 1..MaxActive

\* ------------------------------------------------------------ text helpers
Whitespace == {" ", "\n", "\t"}

RECURSIVE TrimStart(_)
TrimStart(s) ==
    IF s = << >> THEN << >>
    ELSE IF Head(s) \in Whitespace THEN TrimStart(Tail(s)) ELSE s

RECURSIVE TrimEnd(_)
TrimEnd(s) ==
    IF s = << >> THEN << >>
    ELSE IF s[Len(s)] \in Whitespace THEN TrimEnd(SubSeq(s, 1, Len(s) - 1)) ELSE s

\* String.prototype.trim
Trim(s) == TrimEnd(TrimStart(s))

RECURSIVE Join_NoSeparator(_, _)
\* a join that forgets the separator
Join_NoSeparator(ts, sep) ==
    IF ts = << >> THEN << >>
    ELSE ts[1] \o Join_NoSeparator(Tail(ts), sep)

RECURSIVE Join(_, _)
\* Array.prototype.join
Join(ts, sep) ==
    IF ts = << >> THEN << >>
    ELSE IF Len(ts) = 1 THEN ts[1]
    ELSE ts[1] \o sep \o Join(Tail(ts), sep)

RECURSIVE EscapeQuotes(_)
\* s.replace(/"/g, '\\"')
EscapeQuotes(s) ==
    IF s = << >> THEN << >>
    ELSE IF Head(s) = "\"" THEN <<"\\", "\"">> \o EscapeQuotes(Tail(s))
    ELSE <<Head(s)>> \o EscapeQuotes(Tail(s))

\* Array.prototype.slice(from, to) with 0-based, end-exclusive indices
Slice(s, from, to) ==
    SubSeq(s, from + 1, IF to < Len(s) THEN to ELSE Len(s))

RECURSIVE Filter(_, _)
\* Array.prototype.filter for "id not in ids"
Filter(ws, ids) ==
    IF ws = << >> THEN << >>
    ELSE IF \E i \in 1..Len(ids) : ids[i] = Head(ws).id
         THEN Filter(Tail(ws), ids)
         ELSE <<Head(ws)>> \o Filter(Tail(ws), ids)

Ids(items) == [i \in 1..Len(items) |-> items[i].id]
Range(s) == {s[i] : i \in 1..Len(s)}

\* ---------------------------------------------------------------- payloads
\* a request body as addWebhook receives it
StrData(t) == [kind |-> "string", v |-> t]
TextData(t) == [kind |-> "text", v |-> t]
SegData(ts) == [kind |-> "segments", v |-> ts]

\* an object whose segments field is a truthy value without a map method
SegValueData(v) == [kind |-> "segmentsValue", v |-> v]
\* an object whose segments field is an array of arbitrary JSON values
SegElemsData(vs) == [kind |-> "segmentsElems", v |-> vs]
\* an object whose text field is a JSON value that is not a string
TextValueData(v) == [kind |-> "textValue", v |-> v]
\* an object with a segment array and a text field
BothData(ts, t) == [kind |-> "segments", v |-> ts, text |-> t]
\* any other JSON value, given by its serialization
OtherData(json) == [kind |-> "other", v |-> json]

\* JSON values that are not strings; a text never has an element of more
\* than one character, so none of them is a text
NullValue == <<"null">>
NumberValue == <<"number">>
ObjectValue == <<"object">>
NonStrings == {NullValue, NumberValue, ObjectValue}

\* the TypeError a property access on null or a call of a missing method raises
TypeError == <<"TypeError">>

\* JSON.stringify of an object {"text": ""}
EmptyTextJSON == <<"{", "\"", "t", "e", "x", "t", "\"", ":", "\"", "\"", "}">>
\* JSON.stringify of an object {"text": null}
NullTextJSON == <<"{", "\"", "t", "e", "x", "t", "\"", ":", "n", "u", "l", "l", "}">>

\* the serializations of the JSON values that are falsy: 0, null, false
FalsyJSON == {<<"0">>, <<"n", "u", "l", "l">>, <<"f", "a", "l", "s", "e">>}

\* truthiness of a payload (`!data`)
Truthy(data) ==
    /\ ~(data.kind = "string" /\ data.v = << >>)
    /\ ~(data.kind = "other" /\ data.v \in FalsyJSON)

\* extractTextFromData(data): the text, or the value returned in its place,
\* or TypeError when the call throws
extractTextFromData(data) ==
    IF data.kind = "string" THEN data.v
    ELSE IF data.kind = "segments" THEN Join(data.v, <<" ">>)
    ELSE IF data.kind = "segmentsValue" THEN TypeError
    ELSE IF data.kind = "segmentsElems"
         THEN IF \E i \in 1..Len(data.v) : data.v[i] = NullValue
              THEN TypeError
              ELSE Join([i \in 1..Len(data.v) |-> << >>], <<" ">>)
    ELSE IF data.kind = "text"
         THEN IF data.v # << >> THEN data.v ELSE EmptyTextJSON
    ELSE IF data.kind = "textValue"
         THEN IF data.v = NullValue THEN NullTextJSON ELSE data.v
    ELSE data.v

\* the payloads ingested in this model
Payloads == {StrData(<<"h", "i">>), StrData(<<" ">>)}

\* ------------------------------------------------------------------- state
VARIABLES
    webhooks,              \* webhooks.json: sequence of [id, data]
    processed,             \* processed.json: [processedIds, totalProcessed]
    state,                 \* processor_state.json: [lastProcessed, processedCount]
    files,                 \* output documents, path -> text or NoFile
    currentNotesFilePath,  \* server.js module variable
    tk,                    \* per in-flight processWebhooks call: its locals
    started,               \* number of timer firings so far
    appendLog,             \* history: what appendToOutput was asked to append
    commits,               \* history: what saveState and saveProcessed committed
    nextId,                \* the next fresh fragment id (ids are time-based)
    ing,                   \* per in-flight POST /webhook: the locals of addWebhook
    ret,                   \* the value returned by the last call of a query
    session,               \* history: the last session signal the server answered
    crashed,               \* the Node process died of an uncaught exception
    apiKey,                \* process.env holds an API key
    refused,               \* history: ids of the fragments of ticks that ended
                           \* with a configuration failure
    maint                  \* the locals of the cleanup or limitWebhooks call
                           \* in flight

vars == <<webhooks, processed, state, files, currentNotesFilePath, tk,
          started, appendLog, commits, nextId, ing, ret, session,
          crashed, apiKey, refused, maint>>

\* the variables outside the fragment store, the records and the ticks
envVars == <<ing, ret, session, crashed, apiKey, refused, maint>>

\* ------------------------------------------------------- webhook-manager.js
\* loadProcessed on a missing file
EmptyProcessed == [processedIds |-> << >>, totalProcessed |-> 0]

\* loadState on a missing file
EmptyState == [lastProcessed |-> << >>, processedCount |-> 0]

NoBatch == [items |-> << >>, mergedText |-> << >>, nextText |-> << >>, hasMore |-> FALSE]

\* getUnprocessedBatch left by the TypeError of an extraction
ThrownBatch == [items |-> << >>, mergedText |-> TypeError, nextText |-> TypeError,
                hasMore |-> FALSE]

\* extractTextFromData throws on one of these fragments
Throws(items) == \E i \in 1..Len(items) : extractTextFromData(items[i].data) = TypeError

\* a hasMore that does not count the look-ahead fragment
hasMore_BeyondLookAhead(unprocessed) ==
    Len(unprocessed) > batchSize + 1

\* hasMore of a batch taken from these unprocessed fragments
hasMore(unprocessed) ==
    Len(unprocessed) > batchSize

\* a Batcher that takes the look-ahead from the end of the next window
getUnprocessedBatch_LastOfNext(ws, pr) ==
    LET unprocessed == Filter(ws, pr.processedIds)
        batch == Slice(unprocessed, 0, batchSize)
        nextBatch == Slice(unprocessed, batchSize, batchSize * 2)
    IN  IF Len(unprocessed) = 0 THEN NoBatch
        ELSE IF Throws(batch) \/ Throws(Slice(nextBatch, 0, 1)) THEN ThrownBatch
        ELSE [items |-> batch,
              mergedText |-> Join([i \in 1..Len(batch) |-> extractTextFromData(batch[i].data)],
                                  mergeSeparator),
              nextText |-> IF Len(nextBatch) > 0
                           THEN extractTextFromData(nextBatch[Len(nextBatch)].data)
                           ELSE << >>,
              hasMore |-> Len(unprocessed) > batchSize]

\* getUnprocessedBatch on the given file contents; NoBatch stands for null
getUnprocessedBatch(ws, pr) ==
    LET unprocessed == Filter(ws, pr.processedIds)
        batch == Slice(unprocessed, 0, batchSize)
        nextBatch == Slice(unprocessed, batchSize, batchSize * 2)
    IN  IF Len(unprocessed) = 0 THEN NoBatch
        ELSE IF Throws(batch) \/ Throws(Slice(nextBatch, 0, 1)) THEN ThrownBatch
        ELSE [items |-> batch,
              mergedText |-> Join([i \in 1..Len(batch) |-> extractTextFromData(batch[i].data)],
                                  mergeSeparator),
              nextText |-> IF Len(nextBatch) > 0
                           THEN extractTextFromData(nextBatch[1].data) ELSE << >>,
              hasMore |-> hasMore(unprocessed)]

\* the record markBatchProcessed writes, from the record it loaded
markedRecord(pr, batchItems) ==
    [processedIds |-> pr.processedIds \o Ids(batchItems),
     totalProcessed |-> pr.totalProcessed + Len(batchItems)]

\* an addWebhook that waits until no processWebhooks call is in flight
addWebhook_WaitsForTick(data) ==
    /\ nextId <= MaxFrags
    /\ \A t \in Slots : tk[t].pc = "idle"
    /\ IF ~Truthy(data)
       THEN UNCHANGED <<webhooks, nextId>>
       ELSE /\ webhooks' = Append(webhooks, [id |-> nextId, data |-> data])
            /\ nextId' = nextId + 1
    /\ UNCHANGED <<processed, state, files, currentNotesFilePath, tk, started,
                   appendLog, commits>>
    /\ UNCHANGED envVars

\* addWebhook(data)
addWebhook(data) ==
    /\ nextId <= MaxFrags
    /\ IF ~Truthy(data)
       THEN UNCHANGED <<webhooks, nextId>>
       ELSE /\ webhooks' = Append(webhooks, [id |-> nextId, data |-> data])
            /\ nextId' = nextId + 1
    /\ UNCHANGED <<processed, state, files, currentNotesFilePath, tk, started,
                   appendLog, commits>>
    /\ UNCHANGED envVars

\* ------------------------------------------------------------ processor.js
\* the three literals buildPrompt embeds
buildPrompt(lastProcessed, mainText, nextText) ==
    [last |-> EscapeQuotes(lastProcessed),
     main |-> EscapeQuotes(mainText),
     next |-> EscapeQuotes(nextText)]

NoPrompt == [last |-> << >>, main |-> << >>, next |-> << >>]

\* what the llm_wrapper.py subprocess may print
LLMStdouts == {<< >>, <<"\n">>, <<"A", "\n">>, <<"\"", "B">>}
ExitCodes == {0, 1}

\* content of a file after fs.appendFile(path, content + '\n\n')
appended(old, content) ==
    (IF old = NoFile THEN << >> ELSE old) \o content \o <<"\n", "\n">>

\* content of a file after fs.writeFile(path, content + '\n\n')
written(old, content) == content \o <<"\n", "\n">>

\* -------------------------------------------------------------- tick locals
IdleTick == [pc |-> "idle", batch |-> NoBatch, st |-> EmptyState,
             prompt |-> NoPrompt, content |-> << >>, pr |-> EmptyProcessed,
             path |-> Null, outcome |-> "none",
             snap |-> [webhooks |-> << >>, processed |-> EmptyProcessed,
                       state |-> EmptyState, files |-> [p \in Paths |-> NoFile]]]

Active(t) == tk[t].pc # "idle"

\* what a query returned: the operation and its value
Returned(op, val) == [op |-> op, val |-> val]
NoReturn == [op |-> "none"]

\* a POST /webhook request that is not running
IdleIng == [pc |-> "idle", data |-> Null, webhooks |-> << >>]

\* no cleanup or limitWebhooks call is running
IdleMaint == [pc |-> "idle", op |-> "none", kept |-> << >>, pr |-> EmptyProcessed,
              first |-> 1, before |-> {}, removed |-> 0]

\* a finished call leaves only its outcome behind
Finish(t, how) == tk' = [tk EXCEPT ![t] = [IdleTick EXCEPT !.outcome = how]]

Init ==
    /\ webhooks = << >>
    /\ processed = EmptyProcessed
    /\ state = EmptyState
    /\ files = [p \in Paths |-> NoFile]
    /\ currentNotesFilePath = Null
    /\ tk = [t \in Slots |-> IdleTick]
    /\ started = 0
    /\ appendLog = [doc |-> << >>, ids |-> {}, n |-> 0, last |-> << >>, texts |-> {}]
    /\ commits = [states |-> 0, marks |-> 0, last |-> << >>, ids |-> {}]
    /\ nextId = 1
    /\ ing = [i \in IngSlots |-> IdleIng]
    /\ ret = NoReturn
    /\ session = "none"
    /\ crashed = FALSE
    /\ apiKey = TRUE
    /\ refused = {}
    /\ maint = IdleMaint

\* ----------------------------------------------------------------- server.js
\* setInterval fires processWebhooks; it runs up to the result of
\* getUnprocessedBatch.  The timer does not look at calls still in flight.
Fetch(t) ==
    /\ ~Active(t)
    /\ \A u \in Slots : u < t => Active(u)
    /\ started < MaxTicks
    /\ started' = started + 1
    /\ LET batch == getUnprocessedBatch(webhooks, processed)
       IN  IF batch = NoBatch
           THEN Finish(t, "nowork")
           ELSE IF batch = ThrownBatch
           THEN Finish(t, "FetchFailure")
           ELSE tk' = [tk EXCEPT ![t] =
                        [IdleTick EXCEPT !.pc = "process", !.batch = batch,
                           !.snap = [webhooks |-> webhooks, processed |-> processed,
                                     state |-> state, files |-> files]]]
    /\ UNCHANGED <<webhooks, processed, state, files, currentNotesFilePath,
                   appendLog, commits>>
    /\ UNCHANGED <<nextId, envVars>>

\* processBatch(batch.mergedText, batch.nextText, currentNotesFilePath):
\* the empty-text early return, else loadState
LoadState(t) ==
    /\ tk[t].pc = "process"
    /\ IF Trim(tk[t].batch.mergedText) = << >>
       THEN tk' = [tk EXCEPT ![t].pc = "mark"]
       ELSE tk' = [tk EXCEPT ![t].pc = "prompt", ![t].st = state,
                             ![t].path = IF currentNotesFilePath # Null
                                         THEN currentNotesFilePath ELSE outputFile]
    /\ UNCHANGED <<webhooks, processed, state, files, currentNotesFilePath,
                   started, appendLog, commits>>
    /\ UNCHANGED <<nextId, envVars>>

\* buildPrompt after loadUserStyle, prompt written to last_prompt.txt
BuildPrompt(t) ==
    /\ tk[t].pc = "prompt"
    /\ tk' = [tk EXCEPT ![t].pc = "llm",
                        ![t].prompt = buildPrompt(tk[t].st.lastProcessed,
                                                  tk[t].batch.mergedText,
                                                  tk[t].batch.nextText)]
    /\ UNCHANGED <<webhooks, processed, state, files, currentNotesFilePath,
                   started, appendLog, commits>>
    /\ UNCHANGED <<nextId, envVars>>

\* callLLM settles: the subprocess closes with an exit code and its stdout
CallLLM(t) ==
    /\ tk[t].pc = "llm"
    /\ apiKey
    /\ \E code \in ExitCodes, stdout \in LLMStdouts :
         LET processedContent == Trim(stdout)
         IN  IF code # 0 \/ processedContent = << >>
             THEN Finish(t, "SynthesisFailure")
             ELSE tk' = [tk EXCEPT ![t].pc = "append", ![t].content = processedContent]
    /\ UNCHANGED <<webhooks, processed, state, files, currentNotesFilePath,
                   started, appendLog, commits>>
    /\ UNCHANGED <<nextId, envVars>>

\* what the file system may do to one appendToOutput call: appendFile works;
\* mkdir or appendFile throws and the writeFile of the catch block works;
\* both throw
IOOutcomes == {"appendFile", "writeFile", "throw"}

\* the file after appendToOutput(content, path) under the given outcome
appendToOutput(old, content, io) ==
    IF content = << >> THEN old
    ELSE IF io = "appendFile" THEN appended(old, content)
    ELSE IF io = "writeFile" THEN written(old, content)
    ELSE old

\* appendToOutput(processedContent, finalOutputPath) inside processBatch; an
\* exception leaves processBatch and is caught by processWebhooks
AppendToOutput(t) ==
    /\ tk[t].pc = "append"
    /\ \E io \in IOOutcomes :
         LET p == tk[t].path
         IN  /\ files' = [files EXCEPT ![p] = appendToOutput(files[p], tk[t].content, io)]
             /\ IF io = "throw"
                THEN /\ Finish(t, "PersistenceFailure")
                     /\ UNCHANGED appendLog
                ELSE /\ tk' = [tk EXCEPT ![t].pc = "save"]
                     /\ appendLog' =
                          [doc |-> appendLog.doc \o tk[t].content \o <<"\n", "\n">>,
                           ids |-> appendLog.ids \cup Range(Ids(tk[t].batch.items)),
                           n |-> appendLog.n + 1,
                           last |-> tk[t].content,
                           texts |-> appendLog.texts \cup {tk[t].content}]
    /\ UNCHANGED <<webhooks, processed, state, currentNotesFilePath, started, commits>>
    /\ UNCHANGED <<nextId, envVars>>

\* saveState(newState), newState computed from the state loaded at the start
SaveState(t) ==
    /\ tk[t].pc = "save"
    /\ state' = [lastProcessed |-> tk[t].content,
                 processedCount |-> tk[t].st.processedCount + 1]
    /\ commits' = [commits EXCEPT !.states = @ + 1, !.last = tk[t].content]
    /\ tk' = [tk EXCEPT ![t].pc = "mark"]
    /\ UNCHANGED <<webhooks, processed, files, currentNotesFilePath, started, appendLog>>
    /\ UNCHANGED <<nextId, envVars>>

\* markBatchProcessed(batch.items): loadProcessed
MarkLoad(t) ==
    /\ tk[t].pc = "mark"
    /\ tk' = [tk EXCEPT ![t].pc = "marksave", ![t].pr = processed]
    /\ UNCHANGED <<webhooks, processed, state, files, currentNotesFilePath,
                   started, appendLog, commits>>
    /\ UNCHANGED <<nextId, envVars>>

\* markBatchProcessed(batch.items): saveProcessed of the record loaded
MarkSave(t) ==
    /\ tk[t].pc = "marksave"
    /\ processed' = markedRecord(tk[t].pr, tk[t].batch.items)
    /\ commits' = [commits EXCEPT !.marks = @ + 1,
                                  !.ids = @ \cup Range(Ids(tk[t].batch.items))]
    /\ Finish(t, "ok")
    /\ UNCHANGED <<webhooks, state, files, currentNotesFilePath, started, appendLog>>
    /\ UNCHANGED <<nextId, envVars>>

\* POST /webhook
PostWebhook == \E data \in Payloads : addWebhook(data)

\* the timer of server.js: setInterval(processWebhooks, 10000)
Next ==
    \/ PostWebhook
    \/ \E t \in Slots : Fetch(t)
    \/ \E t \in Slots : LoadState(t)
    \/ \E t \in Slots : BuildPrompt(t)
    \/ \E t \in Slots : CallLLM(t)
    \/ \E t \in Slots : AppendToOutput(t)
    \/ \E t \in Slots : SaveState(t)
    \/ \E t \in Slots : MarkLoad(t)
    \/ \E t \in Slots : MarkSave(t)

Spec == Init /\ [][Next]_vars

\* runs in which every call finishes before the timer fires again
Quiescent == \A t \in Slots : ~Active(t)

NextSeq ==
    \/ PostWebhook
    \/ Quiescent /\ Fetch(1)
    \/ LoadState(1)
    \/ BuildPrompt(1)
    \/ CallLLM(1)
    \/ AppendToOutput(1)
    \/ SaveState(1)
    \/ MarkLoad(1)
    \/ MarkSave(1)

SpecSeq == Init /\ [][NextSeq]_vars

\* ------------------------------------------------- retention (webhook-manager.js)
\* processed.processedIds.filter(id => remainingIds.includes(id))
remainingProcessed(pr, remaining) ==
    LET Remains(id) == id \in Range(Ids(remaining))
    IN  [pr EXCEPT !.processedIds = SelectSeq(pr.processedIds, Remains)]

\* the webhooks cleanup keeps; a fragment is old when it was received before
\* the cutoff (ids grow with the time of receipt)
cleanupFiltered(ws, pr, cutoff) ==
    LET Keep(w) == ~(w.id < cutoff /\ w.id \in Range(pr.processedIds))
    IN  SelectSeq(ws, Keep)

\* the webhooks limitWebhooks keeps: webhooks.slice(-maxCount)
limited(ws, maxCount) ==
    IF Len(ws) > maxCount THEN SubSeq(ws, Len(ws) - maxCount + 1, Len(ws)) ELSE ws

\* the default of limitWebhooks(maxCount = 30), and a caller's smaller limit
DefaultMaxCount == 30
MaxCounts == {1, DefaultMaxCount}

\* cleanup(keepDays): the cutoff is now minus keepDays
Cleanup ==
    /\ \E cutoff \in 1..nextId :
         LET filtered == cleanupFiltered(webhooks, processed, cutoff)
         IN  /\ webhooks' = filtered
             /\ processed' = remainingProcessed(processed, filtered)
             /\ ret' = Returned("cleanup", Len(webhooks) - Len(filtered))
    /\ UNCHANGED <<state, files, currentNotesFilePath, tk, started, appendLog,
                   commits, nextId, ing, session, crashed, apiKey, refused, maint>>

\* limitWebhooks(maxCount)
LimitWebhooks ==
    /\ \E maxCount \in MaxCounts :
         IF Len(webhooks) > maxCount
         THEN /\ webhooks' = limited(webhooks, maxCount)
              /\ processed' = remainingProcessed(processed, limited(webhooks, maxCount))
              /\ ret' = Returned("limitWebhooks", Len(webhooks) - maxCount)
         ELSE /\ ret' = Returned("limitWebhooks", 0)
              /\ UNCHANGED <<webhooks, processed>>
    /\ UNCHANGED <<state, files, currentNotesFilePath, tk, started, appendLog,
                   commits, nextId, ing, session, crashed, apiKey, refused, maint>>

\* the store with its maintenance operations, one tick at a time
NextRetention ==
    \/ PostWebhook
    \/ Quiescent /\ Fetch(1)
    \/ LoadState(1)
    \/ BuildPrompt(1)
    \/ CallLLM(1)
    \/ AppendToOutput(1)
    \/ SaveState(1)
    \/ MarkLoad(1)
    \/ MarkSave(1)
    \/ Cleanup
    \/ LimitWebhooks

SpecRetention == Init /\ [][NextRetention]_vars

\* ------------------------------------------- concurrent ingestion (addWebhook)
\* addWebhook(data) up to its saveWebhooks: loadWebhooks, the new fragment
\* pushed on the array that was loaded
AddLoad(i, data) ==
    /\ ing[i].pc = "idle"
    /\ nextId <= MaxFrags
    /\ Truthy(data)
    /\ ing' = [ing EXCEPT ![i] =
                 [pc |-> "save", data |-> data,
                  webhooks |-> Append(webhooks, [id |-> nextId, data |-> data])]]
    /\ nextId' = nextId + 1
    /\ UNCHANGED <<webhooks, processed, state, files, currentNotesFilePath, tk,
                   started, appendLog, commits, ret, session, crashed, apiKey, refused, maint>>

\* saveWebhooks(webhooks) of addWebhook, then the response of POST /webhook
AddSave(i) ==
    /\ ing[i].pc = "save"
    /\ webhooks' = ing[i].webhooks
    /\ ing' = [ing EXCEPT ![i] = IdleIng]
    /\ UNCHANGED <<processed, state, files, currentNotesFilePath, tk, started,
                   appendLog, commits, nextId, ret, session, crashed, apiKey, refused, maint>>

\* loadWebhooks() as getUnprocessedBatch calls it
LoadWebhooks ==
    /\ ret' = Returned("loadWebhooks", webhooks)
    /\ UNCHANGED <<webhooks, processed, state, files, currentNotesFilePath, tk,
                   started, appendLog, commits, nextId, ing, session, crashed, apiKey, refused, maint>>

\* POST /webhook requests overlapping each other and the reads of processing
NextIngest ==
    \/ \E i \in IngSlots, data \in Payloads : AddLoad(i, data)
    \/ \E i \in IngSlots : AddSave(i)
    \/ LoadWebhooks

SpecIngest == Init /\ [][NextIngest]_vars

\* no POST /webhook is in flight
IngestIdle == \A i \in IngSlots : ing[i].pc = "idle"

\* ------------------------------------------------------- session signals
\* POST /start-recording with the body's currentFilePath and fallbackPath
StartRecording ==
    /\ \E currentFilePath \in {Null, NoteFile} : \E fallbackPath \in {Null, FallbackFile} :
         currentNotesFilePath' =
             IF currentFilePath # Null THEN currentFilePath
             ELSE IF fallbackPath # Null THEN fallbackPath
             ELSE outputFile
    /\ session' = "recording"
    /\ UNCHANGED <<webhooks, processed, state, files, tk, started, appendLog,
                   commits, nextId, ing, ret, crashed, apiKey, refused, maint>>

\* POST /stop-recording: logs and answers, nothing else
StopRecording ==
    /\ session' = "stopped"
    /\ UNCHANGED <<webhooks, processed, state, files, currentNotesFilePath, tk,
                   started, appendLog, commits, nextId, ing, ret, crashed, apiKey, refused, maint>>

\* ingestion, session signals and the periodic tick, one tick at a time
NextSession ==
    \/ PostWebhook
    \/ StartRecording
    \/ StopRecording
    \/ Quiescent /\ Fetch(1)
    \/ LoadState(1)
    \/ BuildPrompt(1)
    \/ CallLLM(1)
    \/ AppendToOutput(1)
    \/ SaveState(1)
    \/ MarkLoad(1)
    \/ MarkSave(1)

SpecSession == Init /\ [][NextSession]_vars

\* ------------------------------------------------- failures of the synthesizer
\* a missing API key that consumes the batch all the same
CallLLMNoKey_Consuming(t) ==
    /\ tk[t].pc = "llm"
    /\ ~apiKey
    /\ Finish(t, "ConfigurationFailure")
    /\ processed' = markedRecord(processed, tk[t].batch.items)
    /\ refused' = refused \cup Range(Ids(tk[t].batch.items))
    /\ UNCHANGED <<webhooks, state, files, currentNotesFilePath,
                   started, appendLog, commits>>
    /\ UNCHANGED <<nextId, ing, ret, session, crashed, apiKey, maint>>

\* callLLM without an API key in the environment: the promise is rejected
\* before anything is spawned, processWebhooks catches
CallLLMNoKey(t) ==
    /\ tk[t].pc = "llm"
    /\ ~apiKey
    /\ Finish(t, "ConfigurationFailure")
    /\ refused' = refused \cup Range(Ids(tk[t].batch.items))
    /\ UNCHANGED <<webhooks, processed, state, files, currentNotesFilePath,
                   started, appendLog, commits>>
    /\ UNCHANGED <<nextId, ing, ret, session, crashed, apiKey, maint>>

\* spawn('python3', ...) cannot start the subprocess: the child emits 'error',
\* callLLM registered no listener for it, the event is thrown as an uncaught
\* exception outside the promise and outside the try of processWebhooks
SpawnError(t) ==
    /\ tk[t].pc = "llm"
    /\ apiKey
    /\ crashed' = TRUE
    /\ UNCHANGED <<webhooks, processed, state, files, currentNotesFilePath, tk,
                   started, appendLog, commits, nextId, ing, ret, session, apiKey, refused, maint>>

\* the Node process is running
Alive == ~crashed

\* the server started with or without an API key in its environment
InitFail ==
    /\ apiKey \in BOOLEAN
    /\ webhooks = << >>
    /\ processed = EmptyProcessed
    /\ state = EmptyState
    /\ files = [p \in Paths |-> NoFile]
    /\ currentNotesFilePath = Null
    /\ tk = [t \in Slots |-> IdleTick]
    /\ started = 0
    /\ appendLog = [doc |-> << >>, ids |-> {}, n |-> 0, last |-> << >>, texts |-> {}]
    /\ commits = [states |-> 0, marks |-> 0, last |-> << >>, ids |-> {}]
    /\ nextId = 1
    /\ ing = [i \in IngSlots |-> IdleIng]
    /\ ret = NoReturn
    /\ session = "none"
    /\ crashed = FALSE
    /\ refused = {}
    /\ maint = IdleMaint

\* ingestion and one tick at a time, with every outcome of the synthesizer
\* call; nothing runs once the process is gone
NextFail ==
    \/ Alive /\ PostWebhook
    \/ Alive /\ Quiescent /\ Fetch(1)
    \/ Alive /\ LoadState(1)
    \/ Alive /\ BuildPrompt(1)
    \/ Alive /\ CallLLMNoKey(1)
    \/ Alive /\ SpawnError(1)
    \/ Alive /\ CallLLM(1)
    \/ Alive /\ AppendToOutput(1)
    \/ Alive /\ SaveState(1)
    \/ Alive /\ MarkLoad(1)
    \/ Alive /\ MarkSave(1)

SpecFail == InitFail /\ [][NextFail]_vars

\* --------------------------------------------- a synthesizer that never answers
\* the subprocess was started and never closes: callLLM sets no timer and
\* never kills the child, so its promise stays pending
Hang(t) ==
    /\ tk[t].pc = "llm"
    /\ apiKey
    /\ tk' = [tk EXCEPT ![t].pc = "hung"]
    /\ UNCHANGED <<webhooks, processed, state, files, currentNotesFilePath,
                   started, appendLog, commits>>
    /\ UNCHANGED <<nextId, envVars>>

\* the continuations of call t that the event loop runs when they are ready
TickStep(t) ==
    \/ LoadState(t)
    \/ BuildPrompt(t)
    \/ CallLLM(t)
    \/ Hang(t)
    \/ AppendToOutput(t)
    \/ SaveState(t)
    \/ MarkLoad(t)
    \/ MarkSave(t)

NextHang ==
    \/ PostWebhook
    \/ \E t \in Slots : Fetch(t)
    \/ \E t \in Slots : TickStep(t)

\* every continuation that is ready is run
SpecHang == Init /\ [][NextHang]_vars /\ \A t \in Slots : WF_vars(TickStep(t))

\* ------------------------------------------------ crashes, restarts, failed writes
\* what a record may be after a fs.writeFile that did not complete: untouched,
\* or truncated, and a truncated JSON file loads as the default
WriteCut == {"intact", "truncated"}

\* saveState(newState) throws; processBatch rethrows, processWebhooks catches
SaveStateFails(t) ==
    /\ tk[t].pc = "save"
    /\ \E cut \in WriteCut : state' = IF cut = "truncated" THEN EmptyState ELSE state
    /\ Finish(t, "PersistenceFailure")
    /\ UNCHANGED <<webhooks, processed, files, currentNotesFilePath, started,
                   appendLog, commits>>
    /\ UNCHANGED <<nextId, envVars>>

\* a saveProcessed that throws after the new record reached the disk
MarkSaveFails_Written(t) ==
    /\ tk[t].pc = "marksave"
    /\ processed' = markedRecord(tk[t].pr, tk[t].batch.items)
    /\ Finish(t, "PersistenceFailure")
    /\ UNCHANGED <<webhooks, state, files, currentNotesFilePath, started,
                   appendLog, commits>>
    /\ UNCHANGED <<nextId, envVars>>

\* saveProcessed(processed) of markBatchProcessed throws; processWebhooks catches
MarkSaveFails(t) ==
    /\ tk[t].pc = "marksave"
    /\ \E cut \in WriteCut :
         processed' = IF cut = "truncated" THEN EmptyProcessed ELSE processed
    /\ Finish(t, "PersistenceFailure")
    /\ UNCHANGED <<webhooks, state, files, currentNotesFilePath, started,
                   appendLog, commits>>
    /\ UNCHANGED <<nextId, envVars>>

\* the process dies (uncaught exception, signal, power loss); the write a
\* tick was doing may be cut
Kill ==
    /\ ~crashed
    /\ crashed' = TRUE
    /\ \E cut \in WriteCut :
         /\ state' = IF cut = "truncated" /\ (\E t \in Slots : tk[t].pc = "save")
                     THEN EmptyState ELSE state
         /\ processed' = IF cut = "truncated" /\ (\E t \in Slots : tk[t].pc = "marksave")
                         THEN EmptyProcessed ELSE processed
    /\ UNCHANGED <<webhooks, files, currentNotesFilePath, tk, started, appendLog,
                   commits, nextId, ing, ret, session, apiKey, refused, maint>>

\* a start of the server that begins from a fresh synthesis state
Boot_FreshState ==
    /\ crashed
    /\ crashed' = FALSE
    /\ apiKey' \in BOOLEAN
    /\ tk' = [t \in Slots |-> IdleTick]
    /\ ing' = [i \in IngSlots |-> IdleIng]
    /\ currentNotesFilePath' = Null
    /\ state' = EmptyState
    /\ UNCHANGED <<webhooks, processed, files, started, appendLog,
                   commits, nextId, ret, session, refused, maint>>

\* the server is started again: module variables and calls in flight are
\* gone, the environment is read again, the files are what they were
Boot ==
    /\ crashed
    /\ crashed' = FALSE
    /\ apiKey' \in BOOLEAN
    /\ tk' = [t \in Slots |-> IdleTick]
    /\ ing' = [i \in IngSlots |-> IdleIng]
    /\ currentNotesFilePath' = Null
    /\ UNCHANGED <<webhooks, processed, state, files, started, appendLog,
                   commits, nextId, ret, session, refused, maint>>

\* one tick at a time with every failure of a tick that is caught, and the
\* process stopped and started again at any moment
NextRestart ==
    \/ Alive /\ PostWebhook
    \/ Alive /\ Quiescent /\ Fetch(1)
    \/ Alive /\ LoadState(1)
    \/ Alive /\ BuildPrompt(1)
    \/ Alive /\ CallLLMNoKey(1)
    \/ Alive /\ CallLLM(1)
    \/ Alive /\ AppendToOutput(1)
    \/ Alive /\ SaveState(1)
    \/ Alive /\ SaveStateFails(1)
    \/ Alive /\ MarkLoad(1)
    \/ Alive /\ MarkSave(1)
    \/ Alive /\ MarkSaveFails(1)
    \/ Kill
    \/ Boot

SpecRestart == InitFail /\ [][NextRestart]_vars

\* ---------------------------------------------------- extraction alone
\* the characters of the texts given to the pure functions
Alphabet == {"a", " ", "\""}

\* the texts of at most n characters
Texts(n) == UNION {[1..k -> Alphabet] : k \in 0..n}

\* the texts of the segments: empty, a word, a word and a space
SegTexts == {<< >>, <<"a">>, <<"a", " ">>}

\* the segment arrays of at most MaxSegs segments, each with a text
SegLists == UNION {[1..k -> SegTexts] : k \in 0..MaxSegs}

\* the arrays of at most MaxSegs JSON values that are not objects with a text
ValueLists == UNION {[1..k -> NonStrings] : k \in 0..MaxSegs}

\* the payload shapes a client may post
ExtractInputs ==
    {StrData(t) : t \in Texts(MaxText)}
        \cup {TextData(t) : t \in Texts(MaxText)}
        \cup {SegData(ts) : ts \in SegLists}
        \cup {BothData(ts, <<"a">>) : ts \in SegLists}
        \cup {SegValueData(v) : v \in {NumberValue, ObjectValue, <<"a">>}}
        \cup {SegElemsData(vs) : vs \in ValueLists}
        \cup {TextValueData(v) : v \in NonStrings}
        \cup {OtherData(json) : json \in {<<"5">>, <<"{", "}">>, <<"[", "]">>}}

\* a store holding one fragment with any payload addWebhook accepts
InitExtract ==
    /\ \E data \in {d \in ExtractInputs : Truthy(d)} :
         webhooks = <<[id |-> 1, data |-> data]>>
    /\ nextId = 2
    /\ processed = EmptyProcessed
    /\ state = EmptyState
    /\ files = [p \in Paths |-> NoFile]
    /\ currentNotesFilePath = Null
    /\ tk = [t \in Slots |-> IdleTick]
    /\ started = 0
    /\ appendLog = [doc |-> << >>, ids |-> {}, n |-> 0, last |-> << >>, texts |-> {}]
    /\ commits = [states |-> 0, marks |-> 0, last |-> << >>, ids |-> {}]
    /\ ing = [i \in IngSlots |-> IdleIng]
    /\ ret = NoReturn
    /\ session = "none"
    /\ crashed = FALSE
    /\ apiKey = TRUE
    /\ refused = {}
    /\ maint = IdleMaint

\* extractTextFromData on the payload of the stored fragment
CallExtract ==
    /\ ret' = Returned("extractTextFromData", extractTextFromData(webhooks[1].data))
    /\ UNCHANGED <<webhooks, processed, state, files, currentNotesFilePath, tk,
                   started, appendLog, commits, nextId, ing, session, crashed,
                   apiKey, refused, maint>>

\* ------------------------------------------------ the prompt builder alone
\* the characters of the texts embedded in a prompt: a letter, the quote and
\* the backslash
PromptAlphabet == {"a", "\"", "\\"}

PromptTexts == UNION {[1..k -> PromptAlphabet] : k \in 0..MaxText}

\* the texts a transcript fragment or a synthesis may be: not empty
SpokenTexts == PromptTexts \ {<< >>}

\* the store after one batch was processed with synthesis l: fragment 1 is
\* consumed, fragments 2..11 are the next batch, the first of them saying m,
\* and fragment 12, saying n, is its look-ahead
PromptStore(m, n) ==
    [i \in 1..(batchSize + 2) |->
        [id |-> i, data |-> StrData(IF i = 2 THEN m
                                    ELSE IF i = batchSize + 2 THEN n
                                    ELSE <<"a">>)]]

InitPrompt ==
    /\ \E l \in SpokenTexts, m \in SpokenTexts, n \in SpokenTexts :
         /\ webhooks = PromptStore(m, n)
         /\ state = [lastProcessed |-> l, processedCount |-> 1]
         /\ files = [p \in Paths |-> IF p = outputFile THEN appended(NoFile, l) ELSE NoFile]
         /\ appendLog = [doc |-> appended(NoFile, l), ids |-> {1}, n |-> 1,
                         last |-> l, texts |-> {l}]
         /\ commits = [states |-> 1, marks |-> 1, last |-> l, ids |-> {1}]
    /\ processed = markedRecord(EmptyProcessed, <<[id |-> 1]>>)
    /\ nextId = batchSize + 3
    /\ currentNotesFilePath = Null
    /\ tk = [t \in Slots |-> IdleTick]
    /\ started = 1
    /\ ing = [i \in IngSlots |-> IdleIng]
    /\ ret = NoReturn
    /\ session = "none"
    /\ crashed = FALSE
    /\ apiKey = TRUE
    /\ refused = {}
    /\ maint = IdleMaint

\* a tick up to the prompt it hands to the synthesizer
NextPrompt ==
    \/ Quiescent /\ Fetch(1)
    \/ LoadState(1)
    \/ BuildPrompt(1)

SpecPrompt == InitPrompt /\ [][NextPrompt]_vars

\* ------------------------------------------------------- the Batcher alone
Digits == <<"0", "1", "2", "3", "4", "5", "6", "7", "8", "9">>

RECURSIVE Decimal(_)
\* the decimal digits of a natural number
Decimal(n) ==
    IF n < 10 THEN <<Digits[n + 1]>> ELSE Decimal(n \div 10) \o <<Digits[(n % 10) + 1]>>

\* the transcript word of the i-th fragment: w1, w2, ...
Word(i) == <<"w">> \o Decimal(i)

\* the i-th fragment of a store, its payload in one of the three shapes
Fragment(i) ==
    [id |-> i,
     data |-> IF i % 3 = 0 THEN SegData(<<<<"w">>, Decimal(i)>>)
              ELSE IF i % 3 = 1 THEN StrData(Word(i))
              ELSE TextData(Word(i))]

\* any store of up to MaxStore fragments with any set of them consumed
InitBatcher ==
    /\ \E n \in 0..MaxStore : \E consumed \in SUBSET (1..n) :
         /\ webhooks = [i \in 1..n |-> Fragment(i)]
         /\ processed = [processedIds |->
                            SelectSeq([i \in 1..n |-> i], LAMBDA i : i \in consumed),
                         totalProcessed |-> Cardinality(consumed)]
         /\ nextId = n + 1
    /\ state = EmptyState
    /\ files = [p \in Paths |-> NoFile]
    /\ currentNotesFilePath = Null
    /\ tk = [t \in Slots |-> IdleTick]
    /\ started = 0
    /\ appendLog = [doc |-> << >>, ids |-> {}, n |-> 0, last |-> << >>, texts |-> {}]
    /\ commits = [states |-> 0, marks |-> 0, last |-> << >>, ids |-> {}]
    /\ ing = [i \in IngSlots |-> IdleIng]
    /\ ret = NoReturn
    /\ session = "none"
    /\ crashed = FALSE
    /\ apiKey = TRUE
    /\ refused = {}
    /\ maint = IdleMaint

\* a Batcher call that records what it returns as consumed
CallBatcher_Consuming ==
    /\ ret' = Returned("getUnprocessedBatch", getUnprocessedBatch(webhooks, processed))
    /\ processed' = markedRecord(processed, getUnprocessedBatch(webhooks, processed).items)
    /\ UNCHANGED <<webhooks, state, files, currentNotesFilePath, tk,
                   started, appendLog, commits, nextId, ing, session, crashed, apiKey, refused, maint>>

\* one call of the Batcher
CallBatcher ==
    /\ ret' = Returned("getUnprocessedBatch", getUnprocessedBatch(webhooks, processed))
    /\ UNCHANGED <<webhooks, processed, state, files, currentNotesFilePath, tk,
                   started, appendLog, commits, nextId, ing, session, crashed, apiKey, refused, maint>>

NextBatcher == CallBatcher

SpecBatcher == InitBatcher /\ [][NextBatcher]_vars

\* extraction and the Batcher on a store of one fragment
NextExtract ==
    \/ CallExtract
    \/ CallBatcher

SpecExtract == InitExtract /\ [][NextExtract]_vars

\* getStats() on the given file contents
getStats(ws, pr) ==
    [total |-> Len(ws),
     processed |-> Len(pr.processedIds),
     pending |-> Len(ws) - Len(pr.processedIds),
     batchSize |-> batchSize]

\* one call of getStats
GetStats ==
    /\ ret' = Returned("getStats", getStats(webhooks, processed))
    /\ UNCHANGED <<webhooks, processed, state, files, currentNotesFilePath, tk,
                   started, appendLog, commits, nextId, ing, session, crashed,
                   apiKey, refused, maint>>

\* the timer-driven server with status queries at any moment
NextStats ==
    \/ Next
    \/ GetStats

SpecStats == Init /\ [][NextStats]_vars

\* one tick at a time, ingestion, and Batcher calls at any moment
NextQuery ==
    \/ PostWebhook
    \/ Quiescent /\ Fetch(1)
    \/ LoadState(1)
    \/ BuildPrompt(1)
    \/ CallLLM(1)
    \/ AppendToOutput(1)
    \/ SaveState(1)
    \/ MarkLoad(1)
    \/ MarkSave(1)
    \/ CallBatcher

SpecQuery == Init /\ [][NextQuery]_vars

\* ------------------------------------------ overlapping ticks on a full store
\* a store of MaxStore fragments, none consumed: a full batch and fragments
\* beyond it
InitBacklog ==
    /\ webhooks = [i \in 1..MaxStore |-> Fragment(i)]
    /\ nextId = MaxStore + 1
    /\ processed = EmptyProcessed
    /\ state = EmptyState
    /\ files = [p \in Paths |-> NoFile]
    /\ currentNotesFilePath = Null
    /\ tk = [t \in Slots |-> IdleTick]
    /\ started = 0
    /\ appendLog = [doc |-> << >>, ids |-> {}, n |-> 0, last |-> << >>, texts |-> {}]
    /\ commits = [states |-> 0, marks |-> 0, last |-> << >>, ids |-> {}]
    /\ ing = [i \in IngSlots |-> IdleIng]
    /\ ret = NoReturn
    /\ session = "none"
    /\ crashed = FALSE
    /\ apiKey = TRUE
    /\ refused = {}
    /\ maint = IdleMaint

\* the timer and the continuations of its calls, no ingestion
NextBacklog ==
    \/ \E t \in Slots : Fetch(t)
    \/ \E t \in Slots : LoadState(t)
    \/ \E t \in Slots : BuildPrompt(t)
    \/ \E t \in Slots : CallLLM(t)
    \/ \E t \in Slots : AppendToOutput(t)
    \/ \E t \in Slots : SaveState(t)
    \/ \E t \in Slots : MarkLoad(t)
    \/ \E t \in Slots : MarkSave(t)

SpecBacklog == InitBacklog /\ [][NextBacklog]_vars

\* ----------------------------------------------- runs without a failed write
\* appendToOutput when mkdir and appendFile work
AppendFile(t) ==
    /\ AppendToOutput(t)
    /\ tk'[t].pc = "save"
    /\ files'[tk[t].path] = appended(files[tk[t].path], tk[t].content)

\* the timer-driven server with ingestion, every write of a tick succeeding
NextClean ==
    \/ PostWebhook
    \/ \E t \in Slots : Fetch(t)
    \/ \E t \in Slots : LoadState(t)
    \/ \E t \in Slots : BuildPrompt(t)
    \/ \E t \in Slots : CallLLM(t)
    \/ \E t \in Slots : AppendFile(t)
    \/ \E t \in Slots : SaveState(t)
    \/ \E t \in Slots : MarkLoad(t)
    \/ \E t \in Slots : MarkSave(t)

SpecClean == Init /\ [][NextClean]_vars

\* ------------------------------------------------------ the flush helper
\* the value of a property an object does not have
Undefined == <<"undefined">>

\* item.text of a stored fragment
itemText(item) == IF "text" \in DOMAIN item THEN item.text ELSE Undefined

\* the string Array.prototype.join puts in for an element: undefined and null
\* become the empty string
joinString(v) == IF v = Undefined \/ v = NullValue THEN << >> ELSE v

\* getAllUnprocessed() on the given file contents
getAllUnprocessed(ws, pr) ==
    LET unprocessed == Filter(ws, pr.processedIds)
    IN  [items |-> unprocessed,
         mergedText |-> Join([i \in 1..Len(unprocessed) |->
                                joinString(itemText(unprocessed[i]))],
                             mergeSeparator),
         count |-> Len(unprocessed)]

\* one call of getAllUnprocessed
CallFlush ==
    /\ ret' = Returned("getAllUnprocessed", getAllUnprocessed(webhooks, processed))
    /\ UNCHANGED <<webhooks, processed, state, files, currentNotesFilePath, tk,
                   started, appendLog, commits, nextId, ing, session, crashed,
                   apiKey, refused, maint>>

\* the flush helper and the Batcher on any store
NextFlush ==
    \/ CallFlush
    \/ CallBatcher

SpecFlush == InitBatcher /\ [][NextFlush]_vars

\* ------------------------------------------------- a timer that keeps firing
\* payloads of every kind a client may post: a transcript, blank audio, an
\* object whose segments field is not an array, a segment array holding null
AnyPayloads ==
    {StrData(<<"h", "i">>), StrData(<<" ">>), SegData(<<<<"a">>>>),
     SegValueData(ObjectValue), SegElemsData(<<NullValue>>)}

\* POST /webhook with any of them
PostAny == \E data \in AnyPayloads : addWebhook(data)

\* processWebhooks started by the interval, up to the result of
\* getUnprocessedBatch; the interval fires for as long as the process runs
Tick(t) ==
    /\ ~Active(t)
    /\ LET batch == getUnprocessedBatch(webhooks, processed)
       IN  IF batch = NoBatch
           THEN Finish(t, "nowork")
           ELSE IF batch = ThrownBatch
           THEN Finish(t, "FetchFailure")
           ELSE tk' = [tk EXCEPT ![t] =
                        [IdleTick EXCEPT !.pc = "process", !.batch = batch,
                           !.snap = [webhooks |-> webhooks, processed |-> processed,
                                     state |-> state, files |-> files]]]
    /\ UNCHANGED <<webhooks, processed, state, files, currentNotesFilePath,
                   started, appendLog, commits>>
    /\ UNCHANGED <<nextId, envVars>>

\* the synthesizer answers the call with a text that is not empty
Answer(t) ==
    /\ CallLLM(t)
    /\ tk'[t].pc = "append"

\* the continuations of call t when the synthesizer answers and writes succeed
GoodStep(t) ==
    \/ LoadState(t)
    \/ BuildPrompt(t)
    \/ Answer(t)
    \/ AppendFile(t)
    \/ SaveState(t)
    \/ MarkLoad(t)
    \/ MarkSave(t)

NextProgress ==
    \/ PostAny
    \/ Quiescent /\ Tick(1)
    \/ GoodStep(1)

\* the interval fires again and again and every ready continuation is run
SpecProgress ==
    Init /\ [][NextProgress]_vars
         /\ WF_vars(Quiescent /\ Tick(1)) /\ WF_vars(GoodStep(1))

\* ----------------------------------------- retention racing with ingestion
\* cleanup(keepDays) up to its saveWebhooks: loadWebhooks, loadProcessed, the
\* filter and the processedIds that remain
CleanupLoad ==
    /\ maint.pc = "idle"
    /\ \E cutoff \in 1..nextId :
         LET filtered == cleanupFiltered(webhooks, processed, cutoff)
         IN  maint' = [pc |-> "cleanup-saveWebhooks", op |-> "cleanup",
                       kept |-> filtered,
                       pr |-> remainingProcessed(processed, filtered),
                       first |-> nextId,
                       before |-> Range(processed.processedIds),
                       removed |-> Len(webhooks) - Len(filtered)]
    /\ UNCHANGED <<webhooks, processed, state, files, currentNotesFilePath, tk,
                   started, appendLog, commits, nextId, ing, ret, session,
                   crashed, apiKey, refused>>

\* limitWebhooks(maxCount) up to its saveWebhooks, or to its end when the
\* store is within the limit
LimitLoad ==
    /\ maint.pc = "idle"
    /\ \E maxCount \in MaxCounts :
         IF Len(webhooks) > maxCount
         THEN /\ maint' = [pc |-> "limit-saveWebhooks", op |-> "limitWebhooks",
                           kept |-> limited(webhooks, maxCount),
                           pr |-> EmptyProcessed,
                           first |-> nextId,
                           before |-> Range(processed.processedIds),
                           removed |-> Len(webhooks) - maxCount]
              /\ UNCHANGED ret
         ELSE /\ maint' = [IdleMaint EXCEPT !.op = "limitWebhooks", !.first = nextId,
                                            !.before = Range(processed.processedIds)]
              /\ ret' = Returned("limitWebhooks", 0)
    /\ UNCHANGED <<webhooks, processed, state, files, currentNotesFilePath, tk,
                   started, appendLog, commits, nextId, ing, session,
                   crashed, apiKey, refused>>

\* saveWebhooks(filtered) of cleanup
CleanupSaveWebhooks ==
    /\ maint.pc = "cleanup-saveWebhooks"
    /\ webhooks' = maint.kept
    /\ maint' = [maint EXCEPT !.pc = "saveProcessed"]
    /\ UNCHANGED <<processed, state, files, currentNotesFilePath, tk,
                   started, appendLog, commits, nextId, ing, ret, session,
                   crashed, apiKey, refused>>

\* saveWebhooks(limited) of limitWebhooks
LimitSaveWebhooks ==
    /\ maint.pc = "limit-saveWebhooks"
    /\ webhooks' = maint.kept
    /\ maint' = [maint EXCEPT !.pc = "limit-loadProcessed"]
    /\ UNCHANGED <<processed, state, files, currentNotesFilePath, tk,
                   started, appendLog, commits, nextId, ing, ret, session,
                   crashed, apiKey, refused>>

\* loadProcessed of limitWebhooks and the processedIds that remain
LimitLoadProcessed ==
    /\ maint.pc = "limit-loadProcessed"
    /\ maint' = [maint EXCEPT !.pc = "saveProcessed",
                              !.pr = remainingProcessed(processed, maint.kept)]
    /\ UNCHANGED <<webhooks, processed, state, files, currentNotesFilePath, tk,
                   started, appendLog, commits, nextId, ing, ret, session,
                   crashed, apiKey, refused>>

\* saveProcessed(processed) of cleanup and of limitWebhooks, and their return
MaintSaveProcessed ==
    /\ maint.pc = "saveProcessed"
    /\ processed' = maint.pr
    /\ ret' = Returned(maint.op, maint.removed)
    /\ maint' = [maint EXCEPT !.pc = "idle"]
    /\ UNCHANGED <<webhooks, state, files, currentNotesFilePath, tk,
                   started, appendLog, commits, nextId, ing, session,
                   crashed, apiKey, refused>>

\* a store of up to MaxFrags fragments with any set of them consumed
InitMaint ==
    /\ \E n \in 0..MaxFrags : \E consumed \in SUBSET (1..n) :
         /\ webhooks = [i \in 1..n |-> Fragment(i)]
         /\ processed = [processedIds |->
                            SelectSeq([i \in 1..n |-> i], LAMBDA i : i \in consumed),
                         totalProcessed |-> Cardinality(consumed)]
         /\ nextId = n + 1
    /\ state = EmptyState
    /\ files = [p \in Paths |-> NoFile]
    /\ currentNotesFilePath = Null
    /\ tk = [t \in Slots |-> IdleTick]
    /\ started = 0
    /\ appendLog = [doc |-> << >>, ids |-> {}, n |-> 0, last |-> << >>, texts |-> {}]
    /\ commits = [states |-> 0, marks |-> 0, last |-> << >>, ids |-> {}]
    /\ ing = [i \in IngSlots |-> IdleIng]
    /\ ret = NoReturn
    /\ session = "none"
    /\ crashed = FALSE
    /\ apiKey = TRUE
    /\ refused = {}
    /\ maint = IdleMaint

\* one POST /webhook at a time and one retention call at a time, their file
\* operations interleaved
NextMaint ==
    \/ \E data \in Payloads : AddLoad(1, data)
    \/ AddSave(1)
    \/ CleanupLoad
    \/ CleanupSaveWebhooks
    \/ LimitLoad
    \/ LimitSaveWebhooks
    \/ LimitLoadProcessed
    \/ MaintSaveProcessed

SpecMaint == InitMaint /\ [][NextMaint]_vars

\* ------------------------------------------------- the POST /webhook handler
\* a request body after express.json() and express.text(): a string, or the
\* object express.json() parsed
TextBody(t) == [type |-> "text", v |-> StrData(t)]
JsonBody(data) == [type |-> "json", v |-> data]

\* JSON.parse(text): the value, or SyntaxError when the text is not JSON
SyntaxError == [kind |-> "SyntaxError"]
JSONParse(t) ==
    IF t \in FalsyJSON THEN OtherData(t)
    ELSE IF Len(t) >= 2 /\ t[1] = "\"" /\ t[Len(t)] = "\""
              /\ \A i \in 2..(Len(t) - 1) : t[i] \notin {"\"", "\\"}
         THEN StrData(SubSeq(t, 2, Len(t) - 1))
    ELSE SyntaxError

\* the data the handler passes to addWebhook
bodyData(body) ==
    IF body.type = "text"
    THEN IF JSONParse(body.v.v) # SyntaxError THEN JSONParse(body.v.v) ELSE body.v
    ELSE body.v

\* the bodies clients post: transcripts as text, blank text, an empty body,
\* JSON scalars sent as text, a quoted string, transcription objects, an
\* empty object and an empty array
Bodies ==
    {TextBody(<<"h", "i">>), TextBody(<<" ">>), TextBody(<< >>),
     TextBody(<<"0">>), TextBody(<<"n", "u", "l", "l">>),
     TextBody(<<"f", "a", "l", "s", "e">>), TextBody(<<"\"", "a", "\"">>),
     TextBody(<<"a">>),
     JsonBody(TextData(<<"a">>)), JsonBody(SegData(<<<<"a">>>>)),
     JsonBody(OtherData(<<"{", "}">>)), JsonBody(OtherData(<<"[", "]">>))}

\* POST /webhook: the body is parsed, addWebhook runs, the handler answers
\* success
HandleWebhook(body) ==
    LET data == bodyData(body)
    IN  /\ nextId <= MaxFrags
        /\ IF ~Truthy(data)
           THEN UNCHANGED <<webhooks, nextId>>
           ELSE /\ webhooks' = Append(webhooks, [id |-> nextId, data |-> data])
                /\ nextId' = nextId + 1
        /\ ret' = Returned("POST /webhook", [success |-> TRUE, data |-> data])
        /\ UNCHANGED <<processed, state, files, currentNotesFilePath, tk, started,
                       appendLog, commits, ing, session, crashed, apiKey,
                       refused, maint>>

\* requests handled one after the other, and reads of the store
NextAck ==
    \/ \E body \in Bodies : HandleWebhook(body)
    \/ LoadWebhooks

SpecAck == Init /\ [][NextAck]_vars

\* ------------------------------------------------------------------ claims
IsPrefix(a, b) == Len(a) <= Len(b) /\ SubSeq(b, 1, Len(a)) = a

\* the scheduler states of a call: waiting for the synthesizer, committing
Synthesizing == {"prompt", "llm"}
Committing == {"append", "save", "mark", "marksave"}

\* a step in which the timer starts a call that fetches a batch
Fetches(t) == ~Active(t) /\ started' = started + 1

\* a step in which call t ends with the given outcome
Ends(t, how) == Active(t) /\ ~Active(t)' /\ tk'[t].outcome = how

\* C1: at most one tick is active: no call of processWebhooks fetches a batch
\* while an earlier call is still waiting for the synthesizer or committing.
C1_OneActiveTick ==
    [][\A t \in Slots : Fetches(t) =>
          \A u \in Slots : tk[u].pc \notin Synthesizing \cup Committing]_vars

\* C2: when the synthesizer call of a tick fails, the output document,
\* SynthesisState and ConsumptionRecord are what they were when the tick
\* started, and (the store being what it was) the Batcher returns the batch of
\* the tick again.
C2_FailureChangesNothing ==
    [][\A t \in Slots : (tk[t].pc = "llm" /\ Ends(t, "SynthesisFailure")) =>
          /\ files' = tk[t].snap.files
          /\ state' = tk[t].snap.state
          /\ processed' = tk[t].snap.processed
          /\ (webhooks' = tk[t].snap.webhooks =>
                 getUnprocessedBatch(webhooks', processed') = tk[t].batch)]_vars

\* C3: append precedes commit: every id recorded in processedIds belongs to a
\* batch whose synthesized text was appended before, and the text held by
\* SynthesisState was appended.
C3_AppendPrecedesCommit ==
    /\ Range(processed.processedIds) \subseteq appendLog.ids
    /\ state.lastProcessed \in appendLog.texts \cup {<< >>}

\* C4: no double consumption: a Batcher call never returns a fragment whose id
\* was recorded in processedIds before the call.
C4_NoDoubleConsumption ==
    [][\A t \in Slots : (Fetches(t) /\ Active(t)') =>
          Range(Ids(tk'[t].batch.items)) \cap commits.ids = {}]_vars

\* C5: the commit is one transaction: whenever no tick is in progress, as many
\* SynthesisState updates as ConsumptionRecord commits have happened, each
\* with its append.
C5_OneTransaction ==
    Quiescent => (commits.states = commits.marks /\ commits.marks = appendLog.n)

\* C6: whenever no tick is in progress, the output document is the
\* concatenation of the synthesized texts in processing order, each followed
\* by a blank line, lastProcessed is the last of them and processedCount is
\* their number.
C6_OutputIsConcatenation ==
    Quiescent =>
        /\ files[outputFile] = (IF appendLog.n = 0 THEN NoFile ELSE appendLog.doc)
        /\ state.lastProcessed = appendLog.last
        /\ state.processedCount = appendLog.n

\* C7: appendToOutput only extends the destination: whatever the file system
\* does, the previous content is a prefix of the new content.
C7_AppendOnlyExtends ==
    [][\A p \in Paths : files[p] # NoFile =>
          (files'[p] # NoFile /\ IsPrefix(files[p], files'[p]))]_vars

\* C8: when a prompt is built, its "Last one processed" literal is the text of
\* the most recent commit of SynthesisState (empty before the first).
C8_ContinuityContext ==
    [][\A t \in Slots : (tk[t].pc = "prompt" /\ tk'[t].pc = "llm") =>
          tk'[t].prompt.last = EscapeQuotes(commits.last)]_vars

\* C9: processedCount never decreases and grows by exactly one with every
\* commit of SynthesisState.
C9_CountMonotone ==
    [][/\ state'.processedCount >= state.processedCount
       /\ (commits'.states # commits.states =>
              state'.processedCount = state.processedCount + 1)]_vars

\* C10: processedIds only grows: a commit never drops an id another commit
\* recorded (no reset or cleanup runs here).
C10_ConsumedMonotone ==
    [][Range(processed.processedIds) \subseteq Range(processed'.processedIds)]_vars

\* C11: a stored fragment is never changed, and is removed from the store only
\* if it is consumed; no operation removes an unconsumed fragment.
C11_OnlyConsumedRemoved ==
    [][\A i \in 1..Len(webhooks) :
          webhooks[i] \notin Range(webhooks') =>
              webhooks[i].id \in Range(processed.processedIds)]_vars

\* C12: ingestion is append-only under concurrency: when all addWebhook calls
\* have finished, the store holds one fragment for every call, none lost.
C12_NoFragmentLost ==
    IngestIdle => Range(Ids(webhooks)) = 1..(nextId - 1)

\* C13: every read of the store by processing returns an extension of what the
\* read before it returned: a fragment once seen stays at its position.
C13_ReadsArePrefixes ==
    [][(ret.op = "loadWebhooks" /\ ret'.op = "loadWebhooks") =>
          IsPrefix(ret.val, ret'.val)]_vars

\* the unconsumed fragments of the store, in store order
Unconsumed ==
    SelectSeq(webhooks, LAMBDA w : \A k \in 1..Len(processed.processedIds) :
                                      processed.processedIds[k] # w.id)

RECURSIVE SpaceJoined(_)
\* texts with one space between neighbours
SpaceJoined(ts) ==
    IF Len(ts) = 0 THEN << >>
    ELSE IF Len(ts) = 1 THEN ts[1]
    ELSE ts[1] \o <<" ">> \o SpaceJoined(Tail(ts))

Min(a, b) == IF a < b THEN a ELSE b

\* the Batcher has been called and has returned this
BatcherReturned == ret.op = "getUnprocessedBatch"

\* C14: order preservation: the Batcher returns null when nothing is
\* unconsumed; otherwise items are the first min(batchSize, n) unconsumed
\* fragments in store order, between 1 and 10 of them, and mergedText is their
\* extracted texts in that order with single spaces between.
C14_OrderPreserved ==
    BatcherReturned =>
        LET u == Unconsumed
            b == ret.val
        IN  IF Len(u) = 0 THEN b = NoBatch
            ELSE /\ b # NoBatch
                 /\ Len(b.items) = Min(batchSize, Len(u))
                 /\ Len(b.items) >= 1 /\ Len(b.items) <= 10
                 /\ \A k \in 1..Len(b.items) : b.items[k] = u[k]
                 /\ b.mergedText =
                      SpaceJoined([k \in 1..Len(b.items) |->
                                     extractTextFromData(b.items[k].data)])

\* a full batch taken from a store in which some fragments are consumed and
\* more than a batch is not
C14_Witness ==
    /\ BatcherReturned
    /\ Len(Unconsumed) > batchSize
    /\ Len(Unconsumed) < Len(webhooks)
    /\ Len(ret.val.items) = batchSize

\* C15: look-ahead: nextText is the extracted text of the first unconsumed
\* fragment after the items, empty with fewer than batchSize + 1 unconsumed
\* fragments, and then hasMore is false; hasMore is true exactly when an
\* unconsumed fragment lies beyond the items.
C15_LookAhead ==
    (BatcherReturned /\ ret.val # NoBatch) =>
        LET u == Unconsumed
            b == ret.val
        IN  /\ Len(u) >= batchSize + 1 =>
                  b.nextText = extractTextFromData(u[batchSize + 1].data)
            /\ Len(u) < batchSize + 1 => (b.nextText = << >> /\ ~b.hasMore)
            /\ b.hasMore <=> (\E k \in 1..Len(u) : k > Len(b.items))

\* twelve unconsumed fragments w1..w12: items w1..w10, look-ahead w11
C15_Witness ==
    /\ BatcherReturned
    /\ Len(webhooks) = 12 /\ Len(Unconsumed) = 12
    /\ Ids(ret.val.items) = [k \in 1..10 |-> k]
    /\ ret.val.nextText = Word(11)
    /\ ret.val.hasMore

\* C16 as claimed: with exactly batchSize + 1 unconsumed fragments (the items
\* and the look-ahead fragment) hasMore is false.
C16_HasMoreBeyondLookAhead ==
    (BatcherReturned /\ Len(Unconsumed) = batchSize + 1) => ~ret.val.hasMore

\* C16 amended: hasMore counts the look-ahead fragment: with exactly
\* batchSize + 1 unconsumed fragments hasMore is true, and it is false only
\* when the items are all the unconsumed fragments.
C16_HasMoreCountsLookAhead ==
    (BatcherReturned /\ ret.val # NoBatch) =>
        /\ Len(Unconsumed) = batchSize + 1 => ret.val.hasMore
        /\ ~ret.val.hasMore => Len(Unconsumed) = Len(ret.val.items)

\* exactly batchSize + 1 unconsumed fragments and the Batcher has answered
C16_Witness ==
    /\ BatcherReturned
    /\ Len(Unconsumed) = batchSize + 1
    /\ ret.val.nextText # << >>
    /\ ret.val.hasMore

\* a step in which POST /stop-recording is handled
StopStep == session # "stopped" /\ session' = "stopped"

\* the output target commits are to use
Target == IF currentNotesFilePath # Null THEN currentNotesFilePath ELSE outputFile

\* C17: session end forces a final flush: when /stop-recording arrives with
\* unconsumed fragments and no tick running, a forced tick fetches them in that
\* very step, without waiting for the periodic interval.
C17_StopForcesFlush ==
    [][(StopStep /\ Quiescent /\ Unconsumed # << >>) =>
          \E t \in Slots : Fetches(t)]_vars

\* C18: after /stop-recording the Scheduler is suspended until the next
\* /start-recording: no tick fetches a batch while the session is stopped,
\* even if fragments were ingested after the stop.
C18_SuspendedAfterStop ==
    [][\A t \in Slots : (Fetches(t) /\ tk'[t].pc = "process") =>
          session # "stopped"]_vars

\* C19: every append writes to the output target in force when it happens:
\* the destination of the last /start-recording, the default output file
\* before any, also for a tick that was waiting for the synthesizer when
\* /start-recording arrived.
C19_AppendsGoToTarget ==
    [][\A p \in Paths : files'[p] # files[p] => p = Target]_vars

\* C20: no failure of a single tick terminates the process: whatever fails in
\* fetching, in the synthesizer call (missing credential, subprocess that
\* cannot be started, non-zero exit, empty output) or in committing, the
\* process stays alive, so that later ticks fire and ingestion is accepted.
C20_TickFailureNeverKills ==
    Alive

\* C21: without a credential a tick that reaches the synthesizer call ends
\* with a configuration failure and nothing else: no subprocess outcome, no
\* append, no commit, its fragments stay unconsumed; and a tick fetching
\* later takes the refused fragments that are still unconsumed.
C21_NoCredentialNoCommit ==
    [][\A t \in Slots :
          /\ (Alive /\ Alive' /\ ~apiKey /\ tk[t].pc = "llm" /\ tk'[t] # tk[t]) =>
                /\ Ends(t, "ConfigurationFailure")
                /\ files' = files /\ state' = state /\ processed' = processed
                /\ appendLog' = appendLog /\ commits' = commits
                /\ Range(Ids(tk[t].batch.items)) \subseteq Range(Ids(Unconsumed'))
          /\ (Fetches(t) /\ Active(t)') =>
                (refused \cap Range(Ids(Unconsumed)))
                    \subseteq Range(Ids(tk'[t].batch.items))]_vars

\* fragments refused for want of a credential were synthesized, appended and
\* consumed by a tick of a process started with the credential
C21_Witness ==
    /\ apiKey /\ Alive
    /\ refused # {}
    /\ refused \subseteq appendLog.ids
    /\ refused \subseteq Range(processed.processedIds)
    /\ tk[1].outcome = "ok"

\* C22: the synthesizer call is bounded: a tick that is waiting for the
\* synthesizer always eventually returns to idle, also when the synthesizer
\* never answers.
C22_SynthesisBounded ==
    \A t \in Slots : (tk[t].pc \in Synthesizing) ~> (tk[t].pc = "idle")

\* call t has appended its synthesis and has not yet recorded its batch
AppendedNotMarked(t) ==
    tk[t].pc \in {"save", "mark", "marksave"} /\ tk[t].content # << >>

ExtractReturned == ret.op = "extractTextFromData"

\* C24: extraction is total: for every payload shape extractTextFromData
\* raises no exception and returns a string, and a Batcher call never fails
\* because of a payload.
C24_ExtractionTotal ==
    /\ ExtractReturned => (ret.val # TypeError /\ ret.val \notin NonStrings)
    /\ BatcherReturned => ret.val # ThrownBatch

\* the text the priority rule gives for the payloads it names
RuleText(data) ==
    IF data.kind = "string" THEN data.v
    ELSE IF data.kind = "segments" THEN SpaceJoined(data.v)
    ELSE data.v

\* C25: extraction follows the priority rule: a string payload is returned
\* unchanged; else a segment list yields its segment texts joined by single
\* spaces; else a text field yields its value, also when it is the empty
\* string; else the serialization.
C25_PriorityRule ==
    (ExtractReturned /\ webhooks[1].data.kind \in {"string", "segments", "text", "other"})
        => ret.val = RuleText(webhooks[1].data)

RECURSIVE BackslashesBefore(_, _)
\* the number of consecutive backslashes that end just before position i
BackslashesBefore(s, i) ==
    IF i <= 1 THEN 0
    ELSE IF s[i - 1] = "\\" THEN 1 + BackslashesBefore(s, i - 1)
    ELSE 0

\* a literal that can stand between two quotes: every quote in it is escaped
\* and it does not escape the quote that closes it
WellQuoted(lit) ==
    /\ \A i \in 1..Len(lit) :
          lit[i] = "\"" => BackslashesBefore(lit, i) % 2 = 1
    /\ BackslashesBefore(lit, Len(lit) + 1) % 2 = 0

\* C26: prompt escaping: whatever the last text, the main text and the
\* look-ahead text are, no quote inside a literal of the prompt ends the
\* literal early and no literal escapes its closing quote.
C26_PromptEscaped ==
    \A t \in Slots : tk[t].pc = "llm" =>
        /\ WellQuoted(tk[t].prompt.last)
        /\ WellQuoted(tk[t].prompt.main)
        /\ WellQuoted(tk[t].prompt.next)

\* C27: ingestion is independent of processing: while fragments remain to be
\* posted, POST /webhook can be handled whatever the ticks are doing; it
\* changes the Fragment Store and nothing else; ConsumptionRecord changes
\* only in the marking step of a tick and SynthesisState only in its
\* saveState step.
C27_IngestionIndependent ==
    [][/\ nextId <= MaxFrags => ENABLED PostWebhook
       /\ webhooks' # webhooks =>
             (processed' = processed /\ state' = state /\ files' = files /\ tk' = tk)
       /\ processed' # processed =>
             \E t \in Slots : tk[t].pc = "marksave" /\ Ends(t, "ok")
       /\ state' # state =>
             \E t \in Slots : tk[t].pc = "save" /\ tk'[t].pc = "mark"]_vars

\* a fragment was ingested while a tick was between its fetch and its end
C27_Witness ==
    \E t \in Slots :
        /\ tk[t].pc \in Synthesizing \cup Committing
        /\ Len(webhooks) > Len(tk[t].snap.webhooks)

\* C28: the Batcher has no side effect and is deterministic: a call leaves
\* the Fragment Store, ConsumptionRecord, SynthesisState and the documents
\* unchanged; a call made while the last answer is still the answer for the
\* store and the record returns that answer again; and a tick that finds no
\* unconsumed fragment starts nothing and changes no record.
C28_BatcherReadOnly ==
    [][/\ ret' # ret =>
             /\ UNCHANGED <<webhooks, processed, state, files, tk, appendLog, commits>>
             /\ ret'.val = getUnprocessedBatch(webhooks', processed')
       /\ (BatcherReturned /\ ret.val = getUnprocessedBatch(webhooks, processed)
              /\ webhooks' = webhooks /\ processed' = processed) => ret' = ret
       /\ (started' = started + 1 /\ Unconsumed = << >>) =>
             /\ \A t \in Slots : ~Active(t)'
             /\ \E t \in Slots : tk'[t].outcome = "nowork"
             /\ UNCHANGED <<webhooks, processed, state, files, appendLog, commits>>]_vars

\* a tick found nothing to do, a fragment arrived, and the Batcher, asked
\* directly, returned the batch holding it
C28_Witness ==
    /\ BatcherReturned
    /\ ret.val # NoBatch
    /\ ret.val = getUnprocessedBatch(webhooks, processed)
    /\ tk[1].outcome = "nowork"

\* C29: the status query is consistent: whenever getStats answers, its
\* pending value is the number of stored fragments whose id is not in
\* processedIds, so it is not negative and is 0 exactly when the Batcher has
\* no work, and processed + pending = total.
C29_StatsConsistent ==
    (ret.op = "getStats" /\ ret.val = getStats(webhooks, processed)) =>
        /\ ret.val.pending = Len(Unconsumed)
        /\ ret.val.pending >= 0
        /\ ret.val.pending = 0 <=> getUnprocessedBatch(webhooks, processed) = NoBatch
        /\ ret.val.processed + ret.val.pending = ret.val.total

LookAheadOf(t) ==
    Filter(tk[t].snap.webhooks, tk[t].snap.processed.processedIds)[batchSize + 1]

\* a step in which call t records its batch as consumed
Commits(t) == tk[t].pc = "marksave" /\ Ends(t, "ok")

\* C31: batches are contiguous: when a batch with a non-empty look-ahead is
\* committed, the next batch the Batcher returns starts with the look-ahead
\* fragment of the committed batch; and a committed batch shares no fragment
\* with the batches committed before it.
C31_Contiguous ==
    [][\A t \in Slots : Commits(t) =>
          /\ tk[t].batch.nextText # << >> =>
                LET b == getUnprocessedBatch(webhooks', processed')
                IN  b # NoBatch /\ b.items[1] = LookAheadOf(t)
          /\ Range(Ids(tk[t].batch.items)) \cap commits.ids = {}]_vars

\* C32: consumption accounting: a commit adds exactly the ids of its batch
\* to processedIds and the size of the batch to totalProcessed; processedIds
\* never holds an id twice and totalProcessed is the number of distinct
\* consumed fragments, for every interleaving of ticks.
C32_Accounting ==
    [][/\ \A t \in Slots : Commits(t) =>
             /\ processed'.processedIds
                   = processed.processedIds \o Ids(tk[t].batch.items)
             /\ processed'.totalProcessed
                   = processed.totalProcessed + Len(tk[t].batch.items)
       /\ Len(processed'.processedIds) = Cardinality(Range(processed'.processedIds))
       /\ processed'.totalProcessed = Cardinality(Range(processed'.processedIds))]_vars

\* a step in which call t appends the synthesis of its batch to the output
Appends(t) == tk[t].pc = "append" /\ tk'[t].pc = "save"

\* C33: no duplicates in failure-free runs: with no crash and no failed
\* write, a batch whose synthesis is appended holds no fragment of a batch
\* whose synthesis was appended before, for every interleaving of ticks,
\* synthesizer calls and ingestion.
C33_NoDuplicateOutput ==
    [][\A t \in Slots : Appends(t) =>
          Range(Ids(tk[t].batch.items)) \cap appendLog.ids = {}]_vars

\* C34: the flush helper returns all unconsumed fragments in store order,
\* count is their number, and mergedText is their extracted texts joined by
\* single spaces, the text the Batcher produces for the same items.
C34_FlushText ==
    ret.op = "getAllUnprocessed" =>
        /\ ret.val.items = Unconsumed
        /\ ret.val.count = Len(Unconsumed)
        /\ ret.val.mergedText =
             SpaceJoined([k \in 1..Len(Unconsumed) |->
                            extractTextFromData(Unconsumed[k].data)])

\* C35: progress: with the timer firing, the credential present and the
\* synthesizer answering every batch with a text, every stored fragment,
\* whatever its payload, is eventually consumed.
C35_Progress ==
    \A id \in 1..MaxFrags :
        (id \in Range(Ids(webhooks))) ~> (id \in Range(processed.processedIds))

\* no retention call is running and one has run
MaintDone == maint.pc = "idle" /\ maint.op # "none"

\* C36: retention does not lose concurrent ingestion: once a retention call
\* and the POST /webhook requests have finished, every fragment ingested
\* since the retention call began is in the store; and when a retention call
\* returns, processedIds holds exactly the ids consumed before it whose
\* fragment is stored.
C36_RetentionKeepsIngested ==
    [][/\ (MaintDone' /\ IngestIdle') =>
             \A id \in maint'.first..(nextId' - 1) : id \in Range(Ids(webhooks'))
       /\ (maint.pc = "saveProcessed" /\ maint'.pc = "idle") =>
             Range(processed'.processedIds)
                 = maint.before \cap Range(Ids(webhooks'))]_vars

\* C37: every acknowledged fragment is stored: when POST /webhook answers
\* success for a payload, the store is what it was plus one fragment that
\* carries the payload and has an id no stored fragment had, also for empty
\* and falsy payloads.
C37_AckedIsStored ==
    [][(ret'.op = "POST /webhook" /\ ret'.val.success) =>
          /\ Len(webhooks') = Len(webhooks) + 1
          /\ SubSeq(webhooks', 1, Len(webhooks)) = webhooks
          /\ webhooks'[Len(webhooks')].data = ret'.val.data
          /\ webhooks'[Len(webhooks')].id \notin Range(Ids(webhooks))]_vars

====
